---------------------------- MODULE Spec2Model ----------------------------
(***************************************************************************)
(* CloudflareR2Cache (packages/cf-cache/src/util.ts): a pull-style HTTP    *)
(* response cache on an R2 object store with edge purges.                  *)
(*                                                                         *)
(* Strings are TLA+ strings.  An optional value (a JavaScript value that   *)
(* may be null or undefined) is a sequence of length at most one: <<>> is  *)
(* null/undefined and <<v>> is the value v.                                *)
(*                                                                         *)
(* Specifications:                                                         *)
(*   Spec            every call on small inputs, from an empty bucket      *)
(*   SpecInvalidate  Spec without match                                    *)
(*   SpecFrame       match, keys and put next to delete and deleteAll      *)
(*   SpecBulk        invalidation of more keys than one command takes      *)
(*   SpecPut         put calls that overlap, and match                     *)
(*   SpecKeys        keys, page by page                                    *)
(*   SpecChunk       deleteMany's chunking                                 *)
(*   SpecCodec       the HTTP metadata codec                               *)
(***************************************************************************)
EXTENDS Integers, Sequences, FiniteSets, TLC

VARIABLES
  CFCache,    \* this.CFCache: <<>> (undefined) or <<[origin |-> ...]>>
  store,      \* the R2 bucket: a function from the keys present to entries
  inv,        \* the deleteMany / deleteAll invocation in flight
  storeNo,    \* the bucket of the twin orchestrator built without cfConfig
  invNo,      \* the twin's invocation, fed the same store outcomes
  last,       \* what the latest step returned, if it was a match, keys or put call
  live,       \* history: keys whose latest effective operation is a put
  nPut,       \* number of put calls so far
  nInv,       \* number of deleteMany / deleteAll calls so far
  chunkIn,    \* SpecChunk: the request list handed to deleteMany
  chunkOut,   \* SpecChunk: the batch-delete calls deleteMany issues
  codecIn,    \* SpecCodec: the Headers handed to serializeHTTPMetadata
  codecOut,   \* SpecCodec: the Headers parseHTTPMetadata gives back
  fresh,      \* history: keys put successfully since the latest deleteMany /
              \* deleteAll call began (since construction before the first)
  listReq,    \* SpecKeys: the request handed to keys
  listRun,    \* SpecKeys: the keys call, page by page
  calls,      \* SpecPut: the put calls, each with its position
  writes      \* SpecPut history: the calls in the order the bucket took their writes

mainVars == <<CFCache, store, inv, storeNo, invNo, last, live, nPut, nInv, fresh>>
chunkVars == <<chunkIn, chunkOut>>
codecVars == <<codecIn, codecOut>>
keysVars == <<listReq, listRun>>
putVars == <<calls, writes>>
vars == <<mainVars, chunkVars, codecVars, keysVars, putVars>>

(***************************************************************************)
(* Generic helpers.                                                        *)
(***************************************************************************)
None == <<>>
Some(v) == <<v>>
Truthy(o) == o # <<>> /\ o # <<"">>          \* a defined, non-empty string
Range(s) == {s[i] : i \in 1..Len(s)}
Char(s, i) == SubSeq(s, i, i)
Rep(x, n) == [i \in 1..n |-> x]

RECURSIVE Flatten(_)
Flatten(ss) == IF ss = <<>> THEN <<>> ELSE Head(ss) \o Flatten(Tail(ss))

(***************************************************************************)
(* Number.prototype.toString and parseInt, on decimal digit strings.       *)
(***************************************************************************)
Digits == <<"0", "1", "2", "3", "4", "5", "6", "7", "8", "9">>
NaN == <<>>

RECURSIVE NumToString(_)
NumToString(n) ==
  IF n < 10 THEN Digits[n + 1]
  ELSE NumToString(n \div 10) \o Digits[(n % 10) + 1]

IsDigit(c) == \E d \in 1..10 : Digits[d] = c
DigitVal(c) == (CHOOSE d \in 1..10 : Digits[d] = c) - 1

\* parseInt(s): the longest prefix of digits; NaN when there is none.
RECURSIVE ParseDigits(_, _, _)
ParseDigits(s, i, acc) ==
  IF i > Len(s) \/ ~IsDigit(Char(s, i)) THEN acc
  ELSE ParseDigits(s, i + 1, 10 * acc + DigitVal(Char(s, i)))

parseInt(s) ==
  IF Len(s) = 0 \/ ~IsDigit(Char(s, 1)) THEN NaN ELSE Some(ParseDigits(s, 1, 0))

(***************************************************************************)
(* chunkArray (util.ts 12-15).                                             *)
(***************************************************************************)
ChunkSize == 1000

\* chunkArray mutated to compare with >=.
RECURSIVE chunkArray_ge(_, _)
chunkArray_ge(arr, size) ==
  IF Len(arr) >= size
    THEN <<SubSeq(arr, 1, size)>> \o chunkArray_ge(SubSeq(arr, size + 1, Len(arr)), size)
    ELSE <<arr>>

RECURSIVE chunkArray(_, _)
chunkArray(arr, size) ==
  IF Len(arr) > size
    THEN <<SubSeq(arr, 1, size)>> \o chunkArray(SubSeq(arr, size + 1, Len(arr)), size)
    ELSE <<arr>>

(***************************************************************************)
(* URL parsing: new URL(href).pathname for an absolute http(s) URL.        *)
(* href = scheme "://" authority path ["?" query] ["#" fragment]; an       *)
(* empty path is "/".                                                      *)
(***************************************************************************)
RECURSIVE FindFrom(_, _, _)
\* The least index >= i of s holding a character of cs, or Len(s) + 1.
FindFrom(s, i, cs) ==
  IF i > Len(s) THEN Len(s) + 1
  ELSE IF Char(s, i) \in cs THEN i
  ELSE FindFrom(s, i + 1, cs)

RECURSIVE FindScheme(_, _)
\* The index of the ':' of the first "://" of s, or 0.
FindScheme(s, i) ==
  IF i + 2 > Len(s) THEN 0
  ELSE IF SubSeq(s, i, i + 2) = "://" THEN i
  ELSE FindScheme(s, i + 1)

URLPathname(href) ==
  LET c == FindScheme(href, 1)
      p == FindFrom(href, c + 3, {"/", "?", "#"})
      e == FindFrom(href, p, {"?", "#"})
      path == SubSeq(href, p, e - 1)
  IN  IF path = "" THEN "/" ELSE path

(***************************************************************************)
(* Requests: a URL object, a Request object or a string (RequestInfo), or  *)
(* undefined (keys() only).  href is the URL's href, the Request's url or  *)
(* the string itself.                                                      *)
(***************************************************************************)
ReqURL(href) == [kind |-> "URL", href |-> href]
ReqRequest(href) == [kind |-> "Request", href |-> href]
ReqString(s) == [kind |-> "string", href |-> s]
ReqUndefined == [kind |-> "undefined", href |-> ""]

\* _getKey (util.ts 24-28)
_getKey(request) ==
  CASE request.kind = "Request" -> Some(URLPathname(request.href))
    [] request.kind = "URL" -> Some(URLPathname(request.href))
    [] request.kind = "string" -> Some(request.href)
    [] OTHER -> None

(***************************************************************************)
(* Dates: new Date(string) and Date.prototype.toUTCString, on the date     *)
(* strings of the model.  A Date is its time value in seconds since the    *)
(* epoch, or InvalidDate.                                                  *)
(***************************************************************************)
InvalidDate == [valid |-> FALSE, t |-> 0]
DateAt(t) == [valid |-> TRUE, t |-> t]

NewDate(s) ==
  CASE s = "Thu, 01 Jan 1970 00:00:00 GMT" -> DateAt(0)
    [] s = "Wed, 21 Oct 2015 07:28:00 GMT" -> DateAt(1445412480)
    [] s = "Wed, 21 Oct 2015 09:28:00 +0200" -> DateAt(1445412480)
    [] s = "2015-10-21T07:28:00.000Z" -> DateAt(1445412480)
    [] OTHER -> InvalidDate

toUTCString(d) ==
  CASE ~d.valid -> "Invalid Date"
    [] d.t = 0 -> "Thu, 01 Jan 1970 00:00:00 GMT"
    [] d.t = 1445412480 -> "Wed, 21 Oct 2015 07:28:00 GMT"
    [] OTHER -> "Invalid Date"

(***************************************************************************)
(* Headers: a function from lower-cased header names to values.            *)
(***************************************************************************)
EmptyHeaders == [n \in {} |-> ""]

LowerName(name) ==
  CASE name = "Cache-Control" -> "cache-control"
    [] name = "Expires" -> "expires"
    [] name = "Content-Type" -> "content-type"
    [] name = "Content-Disposition" -> "content-disposition"
    [] name = "Content-Encoding" -> "content-encoding"
    [] name = "Content-Language" -> "content-language"
    [] name = "Content-Length" -> "content-length"
    [] name = "Last-Modified" -> "last-modified"
    [] name = "CDN-Cache-Control" -> "cdn-cache-control"
    [] OTHER -> name

HeadersGet(h, name) ==
  IF LowerName(name) \in DOMAIN h THEN Some(h[LowerName(name)]) ELSE None

HeadersSet(h, name, value) ==
  [n \in DOMAIN h \cup {LowerName(name)} |->
     IF n = LowerName(name) THEN value ELSE h[n]]

\* x || undefined
OrUndefined(x) == IF Truthy(x) THEN x ELSE None

\* serializeHTTPMetadata mutated to default a missing content type.
serializeHTTPMetadata_default(headers) ==
  LET expires == HeadersGet(headers, "expires") IN
  [ cacheControl |-> OrUndefined(HeadersGet(headers, "cache-control")),
    cacheExpiry |-> IF Truthy(expires) THEN Some(NewDate(expires[1])) ELSE None,
    contentType |->
      IF Truthy(HeadersGet(headers, "content-type"))
        THEN HeadersGet(headers, "content-type")
        ELSE Some("application/octet-stream"),
    contentDisposition |-> OrUndefined(HeadersGet(headers, "content-disposition")),
    contentEncoding |-> OrUndefined(HeadersGet(headers, "content-encoding")),
    contentLanguage |-> OrUndefined(HeadersGet(headers, "content-language")) ]

\* serializeHTTPMetadata (util.ts 40-50)
serializeHTTPMetadata(headers) ==
  LET expires == HeadersGet(headers, "expires") IN
  [ cacheControl |-> OrUndefined(HeadersGet(headers, "cache-control")),
    cacheExpiry |-> IF Truthy(expires) THEN Some(NewDate(expires[1])) ELSE None,
    contentType |-> OrUndefined(HeadersGet(headers, "content-type")),
    contentDisposition |-> OrUndefined(HeadersGet(headers, "content-disposition")),
    contentEncoding |-> OrUndefined(HeadersGet(headers, "content-encoding")),
    contentLanguage |-> OrUndefined(HeadersGet(headers, "content-language")) ]

SetIf(h, cond, name, value) == IF cond THEN HeadersSet(h, name, value[1]) ELSE h

\* parseHTTPMetadata (util.ts 59-73); headers is optional.  A Date object is
\* truthy whatever its time value.
parseHTTPMetadata(headers) ==
  IF headers = None THEN EmptyHeaders
  ELSE
    LET m == headers[1]
        r1 == SetIf(EmptyHeaders, Truthy(m.cacheControl), "Cache-Control", m.cacheControl)
        r2 == IF m.cacheExpiry # None
                THEN HeadersSet(r1, "Expires", toUTCString(m.cacheExpiry[1]))
                ELSE r1
        r3 == SetIf(r2, Truthy(m.contentType), "Content-Type", m.contentType)
        r4 == SetIf(r3, Truthy(m.contentDisposition), "Content-Disposition",
                    m.contentDisposition)
        r5 == SetIf(r4, Truthy(m.contentEncoding), "Content-Encoding", m.contentEncoding)
    IN  SetIf(r5, Truthy(m.contentLanguage), "Content-Language", m.contentLanguage)

(***************************************************************************)
(* The R2 bucket.  An entry is what R2.put stored; R2.get gives back an    *)
(* R2ObjectBody, whose body is always a stream (never null), also for a    *)
(* zero-length object.                                                     *)
(***************************************************************************)
EmptyStore == [k \in {} |-> 0]
UploadTime == DateAt(1445412480)
ETagOf(body) == "\"md5:" \o body \o "\""

R2Entry(body, options) ==
  [ body |-> body,
    size |-> Len(body),
    httpEtag |-> ETagOf(body),
    uploaded |-> UploadTime,
    httpMetadata |-> Some(options.httpMetadata),
    customMetadata |-> Some(options.customMetadata) ]

R2Get(st, key) == IF key \in DOMAIN st THEN Some(st[key]) ELSE None

\* R2.put mutated to replace the bucket's content by the one entry.
StorePut_only(st, key, entry) == [k \in {key} |-> entry]

StorePut(st, key, entry) ==
  [k \in DOMAIN st \cup {key} |-> IF k = key THEN entry ELSE st[k]]

StoreRemove(st, keys) == [k \in DOMAIN st \ keys |-> st[k]]

(***************************************************************************)
(* new Response(body, init) (Fetch): a RangeError for a status outside     *)
(* 200..599, a TypeError for a non-null body with a null body status.      *)
(***************************************************************************)
NullBodyStatuses == {101, 103, 204, 205, 304}

NewResponse(body, init) ==
  IF init.status = NaN \/ init.status[1] < 200 \/ init.status[1] > 599
    THEN [error |-> "RangeError", response |-> None]
  ELSE IF body # None /\ init.status[1] \in NullBodyStatuses
    THEN [error |-> "TypeError", response |-> None]
  ELSE [error |-> "",
        response |-> Some([ status |-> init.status[1],
                            statusText |-> init.statusText,
                            headers |-> init.headers,
                            body |-> body ])]

SecondsPerYear == 60 * 60 * 24 * 365

\* match mutated to leave out CDN-Cache-Control when the entry carries its
\* own cache-control.
MatchHit_ownCacheControl(object) ==
  LET customMetadata == object.customMetadata
      h0 == parseHTTPMetadata(object.httpMetadata)
      h1 == HeadersSet(h0, "etag", object.httpEtag)
      h2 == HeadersSet(h1, "Content-Length", NumToString(object.size))
      h3 == HeadersSet(h2, "Last-Modified", toUTCString(object.uploaded))
      h4 == IF "cache-control" \in DOMAIN h0 THEN h3
            ELSE HeadersSet(h3, "CDN-Cache-Control",
                            "public, max-age=" \o NumToString(SecondsPerYear))
      status == IF customMetadata # None /\ customMetadata[1].statusCode # ""
                  THEN parseInt(customMetadata[1].statusCode)
                  ELSE Some(200)
      statusText == IF customMetadata # None /\ customMetadata[1].statusText # ""
                      THEN customMetadata[1].statusText
                      ELSE ""
  IN  NewResponse(Some(object.body),
                  [headers |-> h4, status |-> status, statusText |-> statusText])

\* match (util.ts 303-318), once R2.get has returned an object.
MatchHit(object) ==
  LET customMetadata == object.customMetadata
      h0 == parseHTTPMetadata(object.httpMetadata)
      h1 == HeadersSet(h0, "etag", object.httpEtag)
      h2 == HeadersSet(h1, "Content-Length", NumToString(object.size))
      h3 == HeadersSet(h2, "Last-Modified", toUTCString(object.uploaded))
      h4 == HeadersSet(h3, "CDN-Cache-Control",
                       "public, max-age=" \o NumToString(SecondsPerYear))
      body == Some(object.body)
      status0 == IF body # None THEN Some(200) ELSE Some(304)
      status == IF customMetadata # None /\ customMetadata[1].statusCode # ""
                  THEN parseInt(customMetadata[1].statusCode)
                  ELSE status0
      statusText == IF customMetadata # None /\ customMetadata[1].statusText # ""
                      THEN customMetadata[1].statusText
                      ELSE ""
  IN  NewResponse(body, [headers |-> h4, status |-> status, statusText |-> statusText])

IOCall(call, key) == [call |-> call, key |-> key]

\* match (util.ts 298-319) on the bucket st; getOk: R2.get does not throw.
\* outcome: "response", "miss", or the error thrown.
match(st, request, getOk) ==
  LET key == _getKey(request) IN
  IF ~Truthy(key)
    THEN [op |-> "match", key |-> key, outcome |-> "InvalidKey",
          io |-> <<>>, arg |-> None, response |-> None]
  ELSE IF ~getOk
    THEN [op |-> "match", key |-> key, outcome |-> "StoreError",
          io |-> <<IOCall("get", key[1])>>, arg |-> None, response |-> None]
  ELSE
    LET object == R2Get(st, key[1]) IN
    IF object = None
      THEN [op |-> "match", key |-> key, outcome |-> "miss",
            io |-> <<IOCall("get", key[1])>>, arg |-> None, response |-> None]
      ELSE LET r == MatchHit(object[1]) IN
           [op |-> "match", key |-> key,
            outcome |-> IF r.error = "" THEN "response" ELSE r.error,
            io |-> <<IOCall("get", key[1])>>, arg |-> None,
            response |-> r.response]

\* The options put hands to R2.put (util.ts 337-343).
PutOptions(response) ==
  [ httpMetadata |-> serializeHTTPMetadata(response.headers),
    customMetadata |-> [ statusCode |-> NumToString(response.status),
                         statusText |-> response.statusText ] ]

\* The key put stores under (util.ts 334).
PutKey(request) == _getKey(request)

(***************************************************************************)
(* Bounds and inputs of the model.                                         *)
(***************************************************************************)
MaxPuts == 2          \* put calls per behaviour
MaxInvocations == 1     \* deleteMany / delete / deleteAll calls per behaviour
BulkExtra == 1        \* the preloaded bucket holds ChunkSize + BulkExtra keys
MaxListTail == 1      \* the longest listing has 2 * PageSize + MaxListTail keys

Origin == "https://site.test"

Pad4(i) ==
  (IF i < 10 THEN "000" ELSE IF i < 100 THEN "00" ELSE IF i < 1000 THEN "0" ELSE "")
    \o NumToString(i)
BulkKey(i) == "/p" \o Pad4(i)
BulkCount == ChunkSize + BulkExtra

\* Every key the bucket can hold, in the bucket's listing order (S3 lists
\* keys in lexicographic order).
\* A page more than the preloaded bucket.
UniverseCount == BulkCount + 1000 + MaxListTail
KeyUniverse == <<"/", "/a", "/b">> \o [i \in 1..UniverseCount |-> BulkKey(i)]

BulkEntry ==
  R2Entry("bulk", [ httpMetadata |-> serializeHTTPMetadata(EmptyHeaders),
                    customMetadata |-> [statusCode |-> "200", statusText |-> "OK"] ])
BulkStore == [k \in {BulkKey(i) : i \in 1..BulkCount} |-> BulkEntry]

Hdr(name, value) == [n \in {name} |-> value]

PutResponses ==
  { [status |-> 200, statusText |-> "", body |-> "hello",
     headers |-> [n \in {"content-type", "expires"} |->
                    IF n = "expires" THEN "Wed, 21 Oct 2015 09:28:00 +0200"
                    ELSE "text/html"]],
    [status |-> 404, statusText |-> "Not Found", body |-> "nf",
     headers |-> Hdr("cache-control", "no-store")],
    [status |-> 204, statusText |-> "No Content", body |-> "",
     headers |-> EmptyHeaders] }

BulkPutResponses == {r \in PutResponses : r.status = 404}
BulkPutRequests == {ReqRequest("https://other.test/b#top")}

PutRequests ==
  { ReqRequest("https://site.test/a?x=1"), ReqRequest("https://other.test/b#top"),
    ReqString("") }

MatchRequests ==
  { ReqRequest("https://site.test/a"), ReqURL("https://site.test/b?y=2"),
    ReqString("/a"), ReqString("") }

DeleteRequests ==
  { ReqRequest("https://site.test/a?x=1"), ReqString("/b"), ReqString("") }

LongRequests == Rep(ReqString("/a"), ChunkSize) \o <<ReqString("/b")>>

DeleteManyInputs ==
  { <<>>,
    <<ReqString("/a")>>,
    <<ReqURL("https://site.test/a?x=1"), ReqString("/b")>>,
    <<ReqString("/b"), ReqString("")>> }

\* Request lists of more than one chunk.
BulkDeleteManyInputs == { <<ReqString("/b")>>, LongRequests }

(***************************************************************************)
(* keys (util.ts 188-205): paginateListObjectsV2 with pageSize 1000.  A    *)
(* page holds the next PageSize keys after the continuation token, and a   *)
(* token when more keys follow.                                            *)
(***************************************************************************)
PageSize == 1000

HasPrefix(key, prefix) ==
  prefix = None \/
  (Len(key) >= Len(prefix[1]) /\ SubSeq(key, 1, Len(prefix[1])) = prefix[1])

Listing(st, prefix) ==
  SelectSeq(KeyUniverse, LAMBDA k : k \in DOMAIN st /\ HasPrefix(k, prefix))

\* ListObjectsV2: token is the number of keys already returned.
ListPage(st, prefix, token) ==
  LET all == Listing(st, prefix)
      to == IF token + PageSize < Len(all) THEN token + PageSize ELSE Len(all)
  IN  [ Contents |-> SubSeq(all, token + 1, to),
        NextContinuationToken |-> IF to < Len(all) THEN Some(to) ELSE None ]

\* Objects.push mutated to keep only the latest page.
PushPage_replace(Objects, page) == page.Contents

\* Objects.push(...(page.Contents?.map(...).filter(Boolean) || []))
\* (util.ts 198-202): the keys of the page that are not empty.
PushPage(Objects, page) ==
  Objects \o SelectSeq(page.Contents, LAMBDA k : k # "")

RECURSIVE DrainPages(_, _, _, _)
DrainPages(st, prefix, token, Objects) ==
  LET page == ListPage(st, prefix, token)
      acc == PushPage(Objects, page)
  IN  IF page.NextContinuationToken = None THEN acc
      ELSE DrainPages(st, prefix, page.NextContinuationToken[1], acc)

keys(st, request) == DrainPages(st, _getKey(request), 0, <<>>)

(***************************************************************************)
(* deleteMany / deleteAll (util.ts 223-288) as an invocation record:       *)
(*   pc          "idle", "deleting" (awaiting Promise.all), "purging"      *)
(*               (awaiting fetch), "done"                                  *)
(*   batches     the Objects of each DeleteObjectsCommand sent             *)
(*   chunkState  per command: "pending", "ok" or "failed"                  *)
(*   chunkDeleted the Deleted list of each resolved command                *)
(*   purges      the purge requests issued, each with its state            *)
(***************************************************************************)
IdleInv ==
  [ api |-> "none", pc |-> "idle", reqs |-> <<>>, batches |-> <<>>,
    chunkState |-> <<>>, chunkDeleted |-> <<>>, purges |-> <<>>,
    outcome |-> "none", result |-> <<>> ]

Returned(api, reqs, result) ==
  [ IdleInv EXCEPT !.api = api, !.pc = "done", !.reqs = reqs,
                   !.outcome = "ok", !.result = result ]

\* Objects mutated to take each request itself as the key.
BatchOf_href(chunk) == [j \in 1..Len(chunk) |-> Some(chunk[j].href)]

\* Objects: chunk.map((req) => ({ Key: _getKey(req) })) (util.ts 232, 266)
BatchOf(chunk) == [j \in 1..Len(chunk) |-> _getKey(chunk[j])]

\* chunkArray(requests, 1000).map((chunk) => this.S3.send(...)): every
\* command is sent before any is awaited (util.ts 226-236, 260-270).
SendChunks(api, reqs) ==
  LET chunks == chunkArray(reqs, ChunkSize) IN
  [ IdleInv EXCEPT !.api = api, !.pc = "deleting", !.reqs = reqs,
                   !.batches = [i \in 1..Len(chunks) |-> BatchOf(chunks[i])],
                   !.chunkState = [i \in 1..Len(chunks) |-> "pending"],
                   !.chunkDeleted = [i \in 1..Len(chunks) |-> <<>>] ]

\* deleteMany up to its first await (util.ts 258-270).
BeginDeleteMany(api, requests) ==
  IF Len(requests) = 0 THEN Returned(api, requests, <<>>)
  ELSE SendChunks(api, requests)

\* delete mutated to send the request's href as the key.
delete_href(api, request) ==
  [ SendChunks(api, <<request>>) EXCEPT !.batches = <<<<Some(request.href)>>>> ]

\* delete (util.ts 216-218): return this.deleteMany([request]).
delete(api, request) == BeginDeleteMany(api, <<request>>)

\* deleteAll mutated to read only the first page of the listing.
BeginDeleteAll_firstPage(st) ==
  LET ks == ListPage(st, None, 0).Contents
      reqs == [i \in 1..Len(ks) |-> ReqString(ks[i])]
  IN  IF Len(ks) = 0 THEN Returned("deleteAll", <<>>, <<>>)
      ELSE SendChunks("deleteAll", reqs)

\* deleteAll up to its first await on the deletes (util.ts 223-236).
BeginDeleteAll(st) ==
  LET ks == keys(st, ReqUndefined)
      reqs == [i \in 1..Len(ks) |-> ReqString(ks[i])]
  IN  IF Len(ks) = 0 THEN Returned("deleteAll", <<>>, <<>>)
      ELSE SendChunks("deleteAll", reqs)

\* The keys a DeleteObjects call reports in Deleted: all of the batch but
\* the key at position skip (0: none), which the store reports under Errors
\* and keeps.
ReportedDeleted(batch, skip) ==
  SelectSeq(batch, LAMBDA k : k # None /\ (skip = 0 \/ k # batch[skip]))

RemovedKeys(batch, skip) == {k[1] : k \in Range(ReportedDeleted(batch, skip))}

\* Promise.all mutated to settle when any one command has resolved.
AllChunksResolved_any(v) ==
  \E i \in 1..Len(v.chunkState) : v.chunkState[i] = "ok"

\* Promise.all resolves when every command has resolved (util.ts 227, 261).
AllChunksResolved(v) ==
  \A i \in 1..Len(v.chunkState) : v.chunkState[i] = "ok"

\* .flatMap(({ Deleted }) => Deleted || []) (util.ts 237, 271)
DeletedOf(v) == Flatten(v.chunkDeleted)

\* The purge body of deleteMany, mutated to name the keys reported deleted.
PurgeFiles_deleted(cf, v) ==
  LET ds == DeletedOf(v) IN
  [i \in 1..Len(ds) |-> cf.origin \o ds[i][1]]

\* files: purgeKeys.map((pathname) => `${CFCache.origin}${pathname}`)
\* (util.ts 275, 282)
PurgeFiles(cf, v) ==
  LET purgeKeys == [i \in 1..Len(v.reqs) |-> _getKey(v.reqs[i])] IN
  [i \in 1..Len(purgeKeys) |->
     cf.origin \o (IF purgeKeys[i] = None THEN "undefined" ELSE purgeKeys[i][1])]

PurgeRequest(cf, v) ==
  IF v.api = "deleteAll"
    THEN [kind |-> "purge_everything", files |-> <<>>, state |-> "issued"]
    ELSE [kind |-> "files", files |-> PurgeFiles(cf, v), state |-> "issued"]

\* The code after the awaited Promise.all, mutated to purge unconditionally.
AfterJoin_always(cf, v) ==
  [v EXCEPT !.pc = "purging",
            !.purges = Append(@, [kind |-> "purge_everything", files |-> <<>>,
                                  state |-> "issued"])]

\* The code after the awaited Promise.all (util.ts 239-250, 273-287): with
\* an edge configuration the purge is fetched and awaited, and without one
\* Deleted is returned.
AfterJoin(cf, v) ==
  IF cf # None
    THEN [v EXCEPT !.pc = "purging", !.purges = Append(@, PurgeRequest(cf[1], v))]
    ELSE [v EXCEPT !.pc = "done", !.outcome = "ok", !.result = DeletedOf(v)]

\* A DeleteObjects command resolves.
ChunkOk(v, i, skip) ==
  [v EXCEPT !.chunkState[i] = "ok",
            !.chunkDeleted[i] = ReportedDeleted(v.batches[i], skip)]

\* A rejecting command mutated to leave the invocation waiting.
ChunkFailed_settle(v, i) == [v EXCEPT !.chunkState[i] = "failed"]

\* A DeleteObjects command rejects: Promise.all rejects at once, and so
\* does the invocation if it is still awaiting it.
ChunkFailed(v, i) ==
  IF v.pc = "deleting"
    THEN [v EXCEPT !.chunkState[i] = "failed", !.pc = "done", !.outcome = "StoreError"]
    ELSE [v EXCEPT !.chunkState[i] = "failed"]

\* The awaited fetch mutated to be sent once more when it rejects.
PurgeSettled_retry(v, ok) ==
  IF ok
    THEN [v EXCEPT !.pc = "done", !.outcome = "ok", !.result = DeletedOf(v),
                   !.purges[Len(v.purges)].state = "ok"]
  ELSE IF Len(v.purges) < 2
    THEN [v EXCEPT !.purges = Append([@ EXCEPT ![Len(v.purges)].state = "failed"],
                                      [v.purges[1] EXCEPT !.state = "issued"])]
  ELSE [v EXCEPT !.pc = "done", !.outcome = "PurgeError",
                 !.purges[Len(v.purges)].state = "failed"]

\* The awaited fetch settles (util.ts 243-250, 278-287).
PurgeSettled(v, ok) ==
  IF ok
    THEN [v EXCEPT !.pc = "done", !.outcome = "ok", !.result = DeletedOf(v),
                   !.purges[Len(v.purges)].state = "ok"]
    ELSE [v EXCEPT !.pc = "done", !.outcome = "PurgeError",
                   !.purges[Len(v.purges)].state = "failed"]

Pending(v) == {i \in 1..Len(v.chunkState) : v.chunkState[i] = "pending"}
Settled(v) == v.pc \in {"idle", "done"} /\ Pending(v) = {}

(***************************************************************************)
(* The state after construction (util.ts 172-186): the bucket is empty or  *)
(* holds entries of earlier puts; cfConfig is given or not.                *)
(***************************************************************************)
NoCall ==
  [op |-> "none", key |-> None, outcome |-> "none", io |-> <<>>,
   arg |-> None, response |-> None]

constructor(cfConfig) ==
  IF cfConfig # None
    THEN Some([ origin |-> cfConfig[1].origin,
                url |-> "https://api.cloudflare.com/client/v4/zones/"
                          \o cfConfig[1].zoneId \o "/purge_cache" ])
    ELSE None

CfConfigs == {None, Some([origin |-> Origin, zoneId |-> "z1"])}

MainInit(stores) ==
  /\ CFCache \in {constructor(c) : c \in CfConfigs}
  /\ store \in stores
  /\ storeNo = store
  /\ live = DOMAIN store
  /\ inv = IdleInv
  /\ invNo = IdleInv
  /\ last = NoCall
  /\ nPut = 0
  /\ nInv = 0
  /\ fresh = {}

\* No keys call under way.
IdleList ==
  [ pc |-> "idle", prefix |-> None, token |-> None, Objects |-> <<>>,
    requested |-> <<>>, result |-> None ]

KeysIdle ==
  /\ listReq = ReqUndefined
  /\ listRun = IdleList

PutIdle ==
  /\ calls = <<>>
  /\ writes = <<>>

PureIdle ==
  /\ chunkIn = <<>>
  /\ chunkOut = None
  /\ codecIn = EmptyHeaders
  /\ codecOut = None
  /\ KeysIdle
  /\ PutIdle

Init == MainInit({EmptyStore}) /\ PureIdle

\* The bucket may also hold more keys than one DeleteObjects command takes.
InitBulk == MainInit({EmptyStore, BulkStore}) /\ PureIdle

Match(request, getOk) ==
  /\ last' = match(store, request, getOk)
  /\ UNCHANGED <<CFCache, store, inv, storeNo, invNo, live, nPut, nInv, fresh>>
  /\ UNCHANGED <<chunkVars, codecVars, keysVars, putVars>>

\* keys (util.ts 188-205) in one step; listOk: no list request throws.
Keys(request, listOk) ==
  /\ last' = [op |-> "keys", key |-> _getKey(request),
              outcome |-> IF listOk THEN "ok" ELSE "StoreError",
              io |-> <<IOCall("list", IF _getKey(request) = None THEN ""
                                      ELSE _getKey(request)[1])>>,
              arg |-> None,
              response |-> IF listOk THEN Some(keys(store, request)) ELSE None]
  /\ UNCHANGED <<CFCache, store, inv, storeNo, invNo, live, nPut, nInv, fresh>>
  /\ UNCHANGED <<chunkVars, codecVars, keysVars, putVars>>

\* put (util.ts 333-344); putOk: R2.put does not throw.
Put(request, response, putOk) ==
  LET key == PutKey(request)
      entry == R2Entry(response.body, PutOptions(response))
  IN
  /\ nPut < MaxPuts
  /\ nPut' = nPut + 1
  /\ IF ~Truthy(key)
       THEN /\ last' = [op |-> "put", key |-> key, outcome |-> "InvalidKey",
                        io |-> <<>>, arg |-> Some(response), response |-> None]
            /\ UNCHANGED <<store, storeNo, live, fresh>>
       ELSE /\ last' = [op |-> "put", key |-> key,
                        outcome |-> IF putOk THEN "ok" ELSE "StoreError",
                        io |-> <<IOCall("put", key[1])>>,
                        arg |-> Some(response), response |-> None]
            /\ store' = IF putOk THEN StorePut(store, key[1], entry) ELSE store
            /\ storeNo' = IF putOk THEN StorePut(storeNo, key[1], entry) ELSE storeNo
            /\ live' = IF putOk THEN live \cup {key[1]} ELSE live
            /\ fresh' = IF putOk THEN fresh \cup {key[1]} ELSE fresh
  /\ UNCHANGED <<CFCache, inv, invNo, nInv>>
  /\ UNCHANGED <<chunkVars, codecVars, keysVars, putVars>>

\* deleteMany (util.ts 258-288), up to its first await.
DeleteMany(requests) ==
  /\ Settled(inv)
  /\ nInv < MaxInvocations
  /\ nInv' = nInv + 1
  /\ inv' = BeginDeleteMany("deleteMany", requests)
  /\ invNo' = BeginDeleteMany("deleteMany", requests)
  /\ last' = NoCall
  /\ fresh' = {}
  /\ UNCHANGED <<CFCache, store, storeNo, live, nPut>>
  /\ UNCHANGED <<chunkVars, codecVars, keysVars, putVars>>

\* delete (util.ts 216-218)
Delete(request) ==
  /\ Settled(inv)
  /\ nInv < MaxInvocations
  /\ nInv' = nInv + 1
  /\ inv' = delete("delete", request)
  /\ invNo' = delete("delete", request)
  /\ last' = NoCall
  /\ fresh' = {}
  /\ UNCHANGED <<CFCache, store, storeNo, live, nPut>>
  /\ UNCHANGED <<chunkVars, codecVars, keysVars, putVars>>

\* deleteAll (util.ts 223-251), up to its first await on the deletes.
DeleteAll ==
  /\ Settled(inv)
  /\ nInv < MaxInvocations
  /\ nInv' = nInv + 1
  /\ inv' = BeginDeleteAll(store)
  /\ invNo' = BeginDeleteAll(storeNo)
  /\ last' = NoCall
  /\ fresh' = {}
  /\ UNCHANGED <<CFCache, store, storeNo, live, nPut>>
  /\ UNCHANGED <<chunkVars, codecVars, keysVars, putVars>>

\* The store completes the DeleteObjects command of chunk i.
ChunkResolves(i, skip) ==
  /\ i \in Pending(inv)
  /\ skip <= Len(inv.batches[i])
  /\ inv' = ChunkOk(inv, i, skip)
  /\ store' = StoreRemove(store, RemovedKeys(inv.batches[i], skip))
  /\ live' = live \ RemovedKeys(inv.batches[i], skip)
  /\ IF i \in Pending(invNo)
       THEN /\ invNo' = ChunkOk(invNo, i, skip)
            /\ storeNo' = StoreRemove(storeNo, RemovedKeys(invNo.batches[i], skip))
       ELSE UNCHANGED <<invNo, storeNo>>
  /\ last' = NoCall
  /\ UNCHANGED <<CFCache, nPut, nInv, fresh>>
  /\ UNCHANGED <<chunkVars, codecVars, keysVars, putVars>>

\* The DeleteObjects command of chunk i fails.
ChunkRejects(i) ==
  /\ i \in Pending(inv)
  /\ inv' = ChunkFailed(inv, i)
  /\ invNo' = IF i \in Pending(invNo) THEN ChunkFailed(invNo, i) ELSE invNo
  /\ last' = NoCall
  /\ UNCHANGED <<CFCache, store, storeNo, live, nPut, nInv, fresh>>
  /\ UNCHANGED <<chunkVars, codecVars, keysVars, putVars>>

\* Promise.all has resolved and the invocation goes on to its purge.
Join ==
  /\ inv.pc = "deleting"
  /\ AllChunksResolved(inv)
  /\ inv' = AfterJoin(CFCache, inv)
  /\ invNo' = IF invNo.pc = "deleting" /\ AllChunksResolved(invNo)
                THEN AfterJoin(None, invNo) ELSE invNo
  /\ last' = NoCall
  /\ UNCHANGED <<CFCache, store, storeNo, live, nPut, nInv, fresh>>
  /\ UNCHANGED <<chunkVars, codecVars, keysVars, putVars>>

\* The purge fetch resolves (ok) or rejects.
PurgeSettles(ok) ==
  /\ inv.pc = "purging"
  /\ inv' = PurgeSettled(inv, ok)
  /\ last' = NoCall
  /\ UNCHANGED <<CFCache, store, storeNo, invNo, live, nPut, nInv, fresh>>
  /\ UNCHANGED <<chunkVars, codecVars, keysVars, putVars>>

CacheCalls ==
  \/ \E r \in MatchRequests, getOk \in BOOLEAN : Match(r, getOk)
  \/ \E r \in PutRequests, resp \in PutResponses, putOk \in BOOLEAN : Put(r, resp, putOk)

Settling ==
  \/ \E i \in 1..Len(inv.chunkState), skip \in {0, 1} : ChunkResolves(i, skip)
  \/ \E i \in 1..Len(inv.chunkState) : ChunkRejects(i)
  \/ Join
  \/ \E ok \in BOOLEAN : PurgeSettles(ok)

Next ==
  \/ CacheCalls
  \/ \E rs \in DeleteManyInputs : DeleteMany(rs)
  \/ \E r \in DeleteRequests : Delete(r)
  \/ DeleteAll
  \/ Settling

Spec == Init /\ [][Next]_vars

\* Invalidation of more keys than one chunk holds, with puts in between.
NextBulk ==
  \/ \E r \in BulkPutRequests, resp \in BulkPutResponses : Put(r, resp, TRUE)
  \/ \E rs \in BulkDeleteManyInputs : DeleteMany(rs)
  \/ DeleteAll
  \/ Settling

SpecBulk == InitBulk /\ [][NextBulk]_vars

\* Invalidation on its own: the delete calls of Next and puts of one
\* response, without match, which takes no part in them.
NextInvalidate ==
  \/ \E r \in PutRequests, resp \in BulkPutResponses, putOk \in BOOLEAN :
        Put(r, resp, putOk)
  \/ \E rs \in DeleteManyInputs : DeleteMany(rs)
  \/ \E r \in DeleteRequests : Delete(r)
  \/ DeleteAll
  \/ Settling

SpecInvalidate == Init /\ [][NextInvalidate]_vars

\* The reads (match, keys) and put next to single deletes and deleteAll.
FrameMatchRequests == {ReqRequest("https://site.test/a"), ReqString("")}
FrameKeysRequests == {ReqUndefined, ReqString("/b")}
FramePutResponses == {r \in PutResponses : r.status # 204}

NextFrame ==
  \/ \E r \in FrameMatchRequests, getOk \in BOOLEAN : Match(r, getOk)
  \/ \E r \in FrameKeysRequests, listOk \in BOOLEAN : Keys(r, listOk)
  \/ \E r \in PutRequests, resp \in FramePutResponses, putOk \in BOOLEAN :
        Put(r, resp, putOk)
  \/ \E r \in DeleteRequests : Delete(r)
  \/ DeleteAll
  \/ Settling

SpecFrame == Init /\ [][NextFrame]_vars

(***************************************************************************)
(* SpecChunk: deleteMany's chunking, on request lists around the chunk     *)
(* size.                                                                   *)
(***************************************************************************)
MaxShortLen == 50     \* the short request lists have 0..MaxShortLen requests
MaxTail == 1          \* the longest list has 2 * ChunkSize + MaxTail requests

ChunkLengths ==
  (0..MaxShortLen) \cup ((ChunkSize - 1)..(ChunkSize + 1))
    \cup ((2 * ChunkSize - 1)..(2 * ChunkSize + MaxTail))

ChunkInputs ==
  {[i \in 1..n |-> ReqString(BulkKey(i))] : n \in ChunkLengths}
    \cup {[i \in 1..n |-> IF i % 2 = 1 THEN ReqURL("https://site.test/a?x=1")
                          ELSE ReqString("/b")] : n \in ChunkLengths}

MainQuiet ==
  /\ CFCache = None
  /\ store = EmptyStore
  /\ storeNo = EmptyStore
  /\ live = {}
  /\ inv = IdleInv
  /\ invNo = IdleInv
  /\ last = NoCall
  /\ nPut = 0
  /\ nInv = 0
  /\ fresh = {}

InitChunk ==
  /\ MainQuiet
  /\ chunkIn \in ChunkInputs
  /\ chunkOut = None
  /\ codecIn = EmptyHeaders
  /\ codecOut = None
  /\ KeysIdle
  /\ PutIdle

\* deleteMany(chunkIn) up to its first await: the commands it sends.
RunDeleteMany ==
  /\ chunkOut = None
  /\ chunkOut' = Some(BeginDeleteMany("deleteMany", chunkIn))
  /\ UNCHANGED <<mainVars, chunkIn, codecVars, keysVars, putVars>>

SpecChunk == InitChunk /\ [][RunDeleteMany]_vars

(***************************************************************************)
(* SpecCodec: parseHTTPMetadata after serializeHTTPMetadata, on Headers    *)
(* over the six codec fields.                                              *)
(***************************************************************************)
CodecFields ==
  { "cache-control", "expires", "content-type", "content-disposition",
    "content-encoding", "content-language" }

\* What a field may hold: nothing (the header is absent), or a value.
FieldChoices(f) ==
  IF f = "expires"
    THEN { None, Some(""), Some("Wed, 21 Oct 2015 07:28:00 GMT"),
           Some("Wed, 21 Oct 2015 09:28:00 +0200"), Some("never") }
    ELSE { None, Some(""),
           Some(CASE f = "cache-control" -> "no-store"
                  [] f = "content-type" -> "text/html"
                  [] f = "content-disposition" -> "inline"
                  [] f = "content-encoding" -> "gzip"
                  [] OTHER -> "en") }

HeadersOf(c) == [f \in {g \in CodecFields : c[g] # None} |-> c[f][1]]

CodecInputs ==
  { HeadersOf([f \in CodecFields |->
                 CASE f = "cache-control" -> cc
                   [] f = "expires" -> ex
                   [] f = "content-type" -> ct
                   [] f = "content-disposition" -> cd
                   [] f = "content-encoding" -> ce
                   [] OTHER -> cl]) :
      cc \in FieldChoices("cache-control"), ex \in FieldChoices("expires"),
      ct \in FieldChoices("content-type"), cd \in FieldChoices("content-disposition"),
      ce \in FieldChoices("content-encoding"), cl \in FieldChoices("content-language") }

InitCodec ==
  /\ MainQuiet
  /\ chunkIn = <<>>
  /\ chunkOut = None
  /\ codecIn \in CodecInputs
  /\ codecOut = None
  /\ KeysIdle
  /\ PutIdle

RoundTrip ==
  /\ codecOut = None
  /\ codecOut' = Some(parseHTTPMetadata(Some(serializeHTTPMetadata(codecIn))))
  /\ UNCHANGED <<mainVars, chunkVars, codecIn, keysVars, putVars>>

SpecCodec == InitCodec /\ [][RoundTrip]_vars

(***************************************************************************)
(* SpecKeys: keys (util.ts 188-205) page by page, on buckets whose listing *)
(* takes one, two or three pages.  The paginator sends no token with the   *)
(* first request and the token of the page before with each later one, and *)
(* stops at a page without a token.                                        *)
(***************************************************************************)
ListSizes ==
  (0..MaxListTail) \cup ((PageSize - 1)..(PageSize + MaxListTail))
    \cup ((2 * PageSize - 1)..(2 * PageSize + MaxListTail))

ListStore(n, extra) ==
  [k \in {BulkKey(i) : i \in 1..n} \cup extra |-> BulkEntry]

ListStores == {ListStore(n, extra) : n \in ListSizes, extra \in {{}, {"/a", "/b"}}}

ListRequests ==
  { ReqUndefined, ReqString("/p"), ReqString("/p1"), ReqString("/a"),
    ReqURL("https://site.test/p0?page=2"), ReqString("/zz") }

InitKeys ==
  /\ CFCache = None
  /\ store \in ListStores
  /\ storeNo = store
  /\ live = DOMAIN store
  /\ inv = IdleInv
  /\ invNo = IdleInv
  /\ last = NoCall
  /\ nPut = 0
  /\ nInv = 0
  /\ fresh = {}
  /\ chunkIn = <<>>
  /\ chunkOut = None
  /\ codecIn = EmptyHeaders
  /\ codecOut = None
  /\ listReq \in ListRequests
  /\ listRun = IdleList
  /\ PutIdle

\* keys up to its first await (util.ts 192-197).
KeysCall ==
  /\ listRun.pc = "idle"
  /\ listRun' = [IdleList EXCEPT !.pc = "paging", !.prefix = _getKey(listReq)]
  /\ UNCHANGED <<mainVars, chunkVars, codecVars, listReq, putVars>>

\* The store answers the paginator's request; keys pushes the page and the
\* paginator goes on with the page's token, or ends (util.ts 197-204).
KeysPage ==
  /\ listRun.pc = "paging"
  /\ LET page == ListPage(store, listRun.prefix,
                          IF listRun.token = None THEN 0 ELSE listRun.token[1])
         Objects == PushPage(listRun.Objects, page)
     IN  listRun' =
           IF page.NextContinuationToken # None
             THEN [listRun EXCEPT !.token = page.NextContinuationToken,
                                  !.Objects = Objects,
                                  !.requested = Append(@, listRun.token)]
             ELSE [listRun EXCEPT !.pc = "done",
                                  !.Objects = Objects,
                                  !.requested = Append(@, listRun.token),
                                  !.result = Some(Objects)]
  /\ UNCHANGED <<mainVars, chunkVars, codecVars, listReq, putVars>>

NextKeys == KeysCall \/ KeysPage

SpecKeys == InitKeys /\ [][NextKeys]_vars

(***************************************************************************)
(* SpecPut: put calls that overlap.  put awaits response.arrayBuffer()     *)
(* (util.ts 336) and then hands key, body and options to R2.put in one     *)
(* call (337-343), which the bucket applies as one write; other calls may  *)
(* run between the two.  A call's outcome is kept in calls.                *)
(***************************************************************************)
PutCallRequests ==
  { ReqRequest("https://site.test/a?x=1"), ReqRequest("https://other.test/a#top"),
    ReqRequest("https://site.test/b") }

\* A response whose codec headers are empty, or no date.
OddResponse ==
  [status |-> 200, statusText |-> "OK", body |-> "hi",
   headers |-> [n \in {"cache-control", "content-type", "expires"} |->
                  CASE n = "cache-control" -> "max-age=60"
                    [] n = "content-type" -> ""
                    [] OTHER -> "never"]]

PutCallResponses == PutResponses \cup {OddResponse}

\* The forms a request for /a or /b can take: Request and URL objects, a
\* pathname, an absolute URL string, a relative URL string with a query.
MatchForms ==
  { ReqRequest("https://site.test/a"), ReqURL("https://other.test/a?y=2"),
    ReqString("/a"), ReqString("https://site.test/a?x=1"), ReqString("/a?x=1"),
    ReqURL("https://site.test/b") }

InitPut == MainQuiet /\ PureIdle

\* put up to its await on the body (util.ts 333-336).
PutStart(request, response) ==
  LET key == PutKey(request) IN
  /\ nPut < MaxPuts
  /\ nPut' = nPut + 1
  /\ calls' = Append(calls,
                     IF ~Truthy(key)
                       THEN [pc |-> "done", key |-> key, response |-> response,
                             outcome |-> "InvalidKey"]
                       ELSE [pc |-> "reading", key |-> key, response |-> response,
                             outcome |-> "none"])
  /\ last' = NoCall
  /\ UNCHANGED <<CFCache, store, inv, storeNo, invNo, live, nInv, fresh, writes>>
  /\ UNCHANGED <<chunkVars, codecVars, keysVars>>

\* The body is read and R2.put settles (util.ts 337-343); putOk: the bucket
\* takes the write.
PutStore(c, putOk) ==
  /\ calls[c].pc = "reading"
  /\ LET key == calls[c].key[1]
         response == calls[c].response
         entry == R2Entry(response.body, PutOptions(response))
     IN  /\ store' = IF putOk THEN StorePut(store, key, entry) ELSE store
         /\ storeNo' = IF putOk THEN StorePut(storeNo, key, entry) ELSE storeNo
         /\ live' = IF putOk THEN live \cup {key} ELSE live
         /\ fresh' = IF putOk THEN fresh \cup {key} ELSE fresh
  /\ writes' = IF putOk THEN Append(writes, c) ELSE writes
  /\ calls' = [calls EXCEPT ![c].pc = "done",
                            ![c].outcome = IF putOk THEN "ok" ELSE "StoreError"]
  /\ last' = NoCall
  /\ UNCHANGED <<CFCache, inv, invNo, nPut, nInv>>
  /\ UNCHANGED <<chunkVars, codecVars, keysVars>>

NextPut ==
  \/ \E r \in PutCallRequests, resp \in PutCallResponses : PutStart(r, resp)
  \/ \E c \in 1..Len(calls), putOk \in BOOLEAN : PutStore(c, putOk)
  \/ \E r \in MatchForms, getOk \in BOOLEAN : Match(r, getOk)

SpecPut == InitPut /\ [][NextPut]_vars

(***************************************************************************)
(*                               Properties                                *)
(***************************************************************************)
ProbeKeys == {"/", "/a", "/b"}
Probe(k) == match(store, ReqString(k), TRUE)

\* C1: for every key k, match(k) returns a response if and only if the most
\* recent operation that took effect on k was a successful put, and returns
\* a miss otherwise (live holds exactly the keys last written by a put).
C1_MatchIffLastPut ==
  \A k \in ProbeKeys :
    /\ (Probe(k).outcome = "response") <=> (k \in live)
    /\ k \notin live => Probe(k).outcome = "miss"

\* C2: a purge request is issued only after every batch-delete command of
\* the same invocation has completed: no state has a purge issued while a
\* command of the invocation is still outstanding.
C2_PurgeAfterEveryChunk ==
  inv.purges # <<>> => Pending(inv) = {}

C2_Witness ==
  /\ inv.purges # <<>>
  /\ Len(inv.batches) >= 2
  /\ \A i \in 1..Len(inv.chunkState) : inv.chunkState[i] = "ok"

CeilDiv(n, d) == (n + d - 1) \div d

\* C3: deleteMany over N requests sends ceil(N / 1000) batch-delete commands
\* (none for N = 0), none of more than 1000 keys, and the commands' keys in
\* order are the resolved keys of the requests, each position once.
C3_ChunkPartition ==
  chunkOut # None =>
    LET batches == chunkOut[1].batches
        N == Len(chunkIn)
    IN  /\ Len(batches) = CeilDiv(N, 1000)
        /\ \A i \in 1..Len(batches) : Len(batches[i]) <= 1000
        /\ Flatten(batches) = [i \in 1..N |-> _getKey(chunkIn[i])]

C3_Witness ==
  /\ chunkOut # None
  /\ Len(chunkIn) = 2 * ChunkSize + 1
  /\ Len(chunkOut[1].batches) = 3
  /\ Len(chunkOut[1].batches[3]) = 1

\* C4: deleteAll on an empty bucket sends no batch-delete command and, with
\* an edge configuration, still issues exactly one purge-everything request.
C4_DeleteAllEmptyStillPurges ==
  (inv.api = "deleteAll" /\ inv.pc = "done" /\ inv.reqs = <<>>) =>
    /\ inv.batches = <<>>
    /\ CFCache # None =>
         /\ Len(inv.purges) = 1
         /\ inv.purges[1].kind = "purge_everything"

NoKey(reqs) == \E i \in 1..Len(reqs) : ~Truthy(_getKey(reqs[i]))

\* C5: when a request has no derivable key, match, put, delete and
\* deleteMany fail with the invalid-key error before any store or edge I/O:
\* no get, put, batch-delete or purge is issued for that call.
C5_InvalidKeyBeforeIO ==
  /\ (last.op \in {"match", "put"} /\ ~Truthy(last.key)) =>
       (last.outcome = "InvalidKey" /\ last.io = <<>>)
  /\ (inv.api \in {"delete", "deleteMany"} /\ NoKey(inv.reqs)) =>
       (inv.outcome = "InvalidKey" /\ inv.batches = <<>> /\ inv.purges = <<>>)

Failed(v) == {i \in 1..Len(v.chunkState) : v.chunkState[i] = "failed"}

\* C6: once a batch-delete command of an invocation has failed, the
\* invocation has failed and no purge is ever issued for it, whatever the
\* other commands removed.
C6_FailedChunkNoPurge ==
  Failed(inv) # {} =>
    /\ inv.purges = <<>>
    /\ inv.pc = "done"
    /\ inv.outcome = "StoreError"

\* The bucket partly emptied by one chunk, another chunk failed, no purge.
C6_Witness ==
  /\ inv.api = "deleteAll"
  /\ inv.chunkState = <<"ok", "failed">>
  /\ BulkKey(1) \notin DOMAIN store
  /\ BulkKey(BulkCount) \in DOMAIN store
  /\ inv.purges = <<>>
  /\ inv.outcome = "StoreError"

\* C7: right after a successful put of a response with status s and status
\* text t under a key, match on that key returns a response with status s
\* and status text t.
C7_StatusFidelity ==
  (last.op = "put" /\ last.outcome = "ok") =>
    LET m == match(store, ReqString(last.key[1]), TRUE) IN
    /\ m.outcome = "response"
    /\ m.response[1].status = last.arg[1].status
    /\ m.response[1].statusText = last.arg[1].statusText

(***************************************************************************)
(* Two date strings are equal up to UTC normalization when they denote the *)
(* same instant and the second is in the GMT form.                         *)
(***************************************************************************)
IsGMTForm(v) == Len(v) >= 3 /\ SubSeq(v, Len(v) - 2, Len(v)) = "GMT"

SameUpToUTC(f, given, got) ==
  IF f = "expires"
    THEN /\ NewDate(given).valid
         /\ NewDate(got).valid
         /\ NewDate(given).t = NewDate(got).t
         /\ IsGMTForm(got)
    ELSE got = given

C9_EdgeConfigChangesNothing ==
  /\ invNo.purges = <<>>
  /\ CFCache = None => inv.purges = <<>>
  /\ invNo.batches = inv.batches
  /\ storeNo = store
  /\ inv.pc = "done" =>
       (invNo.pc = "done" /\ invNo.outcome = inv.outcome /\ invNo.result = inv.result)

\* C9 as amended: the same, but the results agree unless the purge request
\* itself fails; then the call with the edge configuration fails with the
\* purge error where the call without it returns the deleted list.
C9_EdgeConfigOnlyAddsPurge ==
  /\ invNo.purges = <<>>
  /\ CFCache = None => inv.purges = <<>>
  /\ invNo.batches = inv.batches
  /\ invNo.chunkDeleted = inv.chunkDeleted
  /\ storeNo = store
  /\ (inv.pc = "done" /\ inv.outcome # "PurgeError") =>
       (invNo.pc = "done" /\ invNo.outcome = inv.outcome /\ invNo.result = inv.result)
  /\ (inv.pc = "done" /\ inv.outcome = "PurgeError") =>
       (invNo.pc = "done" /\ invNo.outcome = "ok" /\ invNo.result = DeletedOf(inv))

C9_Witness ==
  /\ CFCache # None
  /\ inv.pc = "done"
  /\ inv.outcome = "ok"
  /\ Len(inv.purges) = 1
  /\ inv.result # <<>>
  /\ invNo.pc = "done"
  /\ invNo.result = inv.result
  /\ invNo.purges = <<>>

IsDeleteMany(v) == v.api \in {"delete", "deleteMany"}

\* C10: the purge request of deleteMany names exactly the keys deleted by
\* the invocation, each joined with the origin, also when the store reports
\* only a subset of the requested keys as deleted.
C10_PurgeNamesDeletedKeys ==
  (IsDeleteMany(inv) /\ inv.purges # <<>>) =>
    Range(inv.purges[1].files) = {Origin \o k[1] : k \in Range(DeletedOf(inv))}

\* C10 as amended: the purge request of deleteMany names the resolved key of
\* every request, in input order, each joined with the origin, whether or
\* not the store reported that key as deleted.
C10_PurgeNamesRequestedKeys ==
  (IsDeleteMany(inv) /\ inv.purges # <<>>) =>
    /\ Len(inv.purges) = 1
    /\ inv.purges[1].kind = "files"
    /\ Len(inv.purges[1].files) = Len(inv.reqs)
    /\ \A i \in 1..Len(inv.reqs) :
         inv.purges[1].files[i] =
           Origin \o (IF inv.reqs[i].kind = "string" THEN inv.reqs[i].href
                      ELSE URLPathname(inv.reqs[i].href))

\* A purge naming two requested keys of which the store deleted only one.
C10_Witness ==
  /\ inv.api = "deleteMany"
  /\ inv.purges # <<>>
  /\ inv.purges[1].files = <<"https://site.test/a", "https://site.test/b">>
  /\ Len(DeletedOf(inv)) = 1

\* The invocation v told as a deleteMany call.
AsDeleteMany(v) == [v EXCEPT !.api = "deleteMany"]

\* C11: delete(request) is deleteMany([request]): the call step of a delete
\* leaves the invocation where deleteMany([request]) leaves it (the same
\* batch-delete command, or the same early return) and the bucket as it
\* was, and every later step of the delete (a command resolving or
\* failing, the purge being issued, the purge settling) is the step
\* deleteMany([request]) takes from the same state on the same store and
\* edge outcome: the same bucket, purge request, result or error.
C11_DeleteIsDeleteManyOfOne ==
  [][ (inv'.api = "delete" /\ inv' # inv) =>
        \/ /\ nInv' = nInv + 1
           /\ Len(inv'.reqs) = 1
           /\ AsDeleteMany(inv') = BeginDeleteMany("deleteMany", <<inv'.reqs[1]>>)
           /\ store' = store
        \/ /\ nInv' = nInv
           /\ inv.api = "delete"
           /\ \/ \E i \in Pending(inv), skip \in {0, 1} :
                   /\ AsDeleteMany(inv') = ChunkOk(AsDeleteMany(inv), i, skip)
                   /\ store' = StoreRemove(store, RemovedKeys(inv.batches[i], skip))
              \/ \E i \in Pending(inv) :
                   /\ AsDeleteMany(inv') = ChunkFailed(AsDeleteMany(inv), i)
                   /\ store' = store
              \/ /\ AllChunksResolved(inv)
                 /\ AsDeleteMany(inv') = AfterJoin(CFCache, AsDeleteMany(inv))
                 /\ store' = store
              \/ \E ok \in BOOLEAN :
                   /\ inv.pc = "purging"
                   /\ AsDeleteMany(inv') = PurgeSettled(AsDeleteMany(inv), ok)
                   /\ store' = store ]_vars

\* delete of a Request whose entry is stored: one command for its pathname,
\* the entry gone, one purge of its URL, the deleted key returned.
C11_Witness ==
  /\ inv.api = "delete"
  /\ inv.reqs = <<ReqRequest("https://site.test/a?x=1")>>
  /\ inv.batches = <<<<Some("/a")>>>>
  /\ inv.pc = "done"
  /\ inv.outcome = "ok"
  /\ inv.result = <<Some("/a")>>
  /\ Len(inv.purges) = 1
  /\ inv.purges[1].files = <<"https://site.test/a">>
  /\ nPut > 0
  /\ "/a" \notin DOMAIN store

\* Every command of v resolved and reported each key of its batch deleted.
AllDeleted(v) ==
  /\ v.batches # <<>>
  /\ \A i \in 1..Len(v.batches) :
       v.chunkState[i] = "ok" /\ v.chunkDeleted[i] = v.batches[i]

KeysOf(reqs) == [i \in 1..Len(reqs) |-> _getKey(reqs[i])]

\* C12: deleteAll on a non-empty bucket
\*  (a) enumerates every key of the bucket, each once (seen while the
\*      bucket is still as the call found it: no command resolved, no put);
\*  (b) submits each enumerated key to exactly one batch-delete command,
\*      none of more than 1000 keys;
\*  (c) issues no purge by URL and never a second purge, and once every
\*      command has resolved issues, with an edge configuration, exactly
\*      one purge-everything request;
\*  (d) when it returns after every command reported all its keys deleted
\*      and no put succeeded meanwhile, the bucket holds no entry.
C12_DeleteAllEmptiesAndPurgesAll ==
  (inv.api = "deleteAll" /\ inv.reqs # <<>>) =>
    /\ (Pending(inv) = DOMAIN inv.chunkState /\ inv.pc = "deleting" /\ fresh = {}) =>
         /\ {k[1] : k \in Range(KeysOf(inv.reqs))} = DOMAIN store
         /\ Len(inv.reqs) = Cardinality(DOMAIN store)
    /\ Flatten(inv.batches) = KeysOf(inv.reqs)
    /\ Cardinality(Range(Flatten(inv.batches))) = Len(inv.reqs)
    /\ \A i \in 1..Len(inv.batches) : Len(inv.batches[i]) \in 1..1000
    /\ Len(inv.purges) <= 1
    /\ \A i \in 1..Len(inv.purges) : inv.purges[i].kind = "purge_everything"
    /\ (CFCache # None /\ inv.pc # "deleting" /\ AllChunksResolved(inv)) =>
         Len(inv.purges) = 1
    /\ (inv.pc = "done" /\ inv.outcome = "ok" /\ AllDeleted(inv) /\ fresh = {}) =>
         store = EmptyStore

\* deleteAll has returned from a bucket of more keys than one command takes:
\* two commands, one purge-everything, the bucket empty.
C12_Witness ==
  /\ inv.api = "deleteAll"
  /\ Len(inv.reqs) = BulkCount + 1
  /\ Len(inv.batches) = 2
  /\ Len(inv.batches[1]) = 1000
  /\ inv.pc = "done"
  /\ inv.outcome = "ok"
  /\ AllDeleted(inv)
  /\ fresh = {}
  /\ Len(inv.purges) = 1
  /\ inv.purges[1].kind = "purge_everything"
  /\ store = EmptyStore

\* The keys of the bucket that keys(listReq) is to yield.
Matching == {k \in DOMAIN store : HasPrefix(k, _getKey(listReq))}

\* C13: keys(request) ends at the first page that carries no continuation
\* token and then has yielded exactly the keys of the bucket with the prefix
\* derived from request (all keys without a request), each once; page j is
\* requested once, with the token of page j - 1 (none for the first), so no
\* page is skipped or read twice; and while it has not ended another page
\* remains.  The result is the one the single-step keys operator computes.
C13_KeysDrainsAllPages ==
  LET n == Cardinality(Matching)
      asked == listRun.requested
  IN
  /\ \A j \in 1..Len(asked) :
       asked[j] = IF j = 1 THEN None ELSE Some((j - 1) * 1000)
  /\ listRun.pc = "paging" => Len(asked) * 1000 < n \/ asked = <<>>
  /\ listRun.pc = "done" =>
       /\ Range(listRun.result[1]) = Matching
       /\ Len(listRun.result[1]) = n
       /\ Len(asked) = IF n = 0 THEN 1 ELSE CeilDiv(n, 1000)
       /\ ListPage(store, listRun.prefix,
                   (Len(asked) - 1) * 1000).NextContinuationToken = None
       /\ listRun.result[1] = keys(store, listReq)

\* keys('/p') on a bucket of 2001 such keys and two others: three pages.
C13_Witness ==
  /\ listRun.pc = "done"
  /\ listReq = ReqString("/p")
  /\ Cardinality(DOMAIN store) = 2 * PageSize + 3
  /\ listRun.requested = <<None, Some(1000), Some(2000)>>
  /\ Len(listRun.result[1]) = 2 * PageSize + 1

(***************************************************************************)
(* The pathname a request denotes: that of its URL; for a string, that of  *)
(* the URL it spells, a relative one being its path before any query or    *)
(* fragment.                                                               *)
(***************************************************************************)
DenotedPathname(request) ==
  IF request.kind = "string" /\ FindScheme(request.href, 1) = 0
    THEN LET e == FindFrom(request.href, 1, {"?", "#"})
         IN  SubSeq(request.href, 1, e - 1)
    ELSE URLPathname(request.href)

\* C14: every form of a request (URL object, Request object, absolute or
\* relative URL string) that denotes the pathname of a stored entry,
\* whatever its host or query, resolves to the entry's key, and match under
\* that form finds the entry.
C14_SamePathnameSameKey ==
  \A k \in DOMAIN store, f \in MatchForms :
    DenotedPathname(f) = k =>
      /\ _getKey(f) = Some(k)
      /\ match(store, f, TRUE).outcome # "miss"

\* The call whose write the bucket took last for key k.
LastWriter(k) ==
  LET ws == SelectSeq(writes, LAMBDA c : calls[c].key = Some(k))
  IN  ws[Len(ws)]

\* The response match has just returned on a hit, with the entry it read
\* and the response given to the put that wrote the entry.
HitOf(m) ==
  [ headers |-> m.response[1].headers,
    body |-> m.response[1].body,
    entry |-> store[m.key[1]],
    given |-> calls[LastWriter(m.key[1])].response ]

IsHit(m) == m.op = "match" /\ m.outcome = "response"

ComputedHeaders(hit) ==
  /\ HeadersGet(hit.headers, "CDN-Cache-Control") = Some("public, max-age=31536000")
  /\ HeadersGet(hit.headers, "Content-Length") = Some(NumToString(hit.entry.size))
  /\ hit.entry.size = Len(hit.given.body)
  /\ HeadersGet(hit.headers, "etag") = Some(hit.entry.httpEtag)
  /\ HeadersGet(hit.headers, "Last-Modified") = Some(toUTCString(hit.entry.uploaded))
  /\ hit.body = Some(hit.given.body)

GivenCodec(hit) == CodecFields \cap DOMAIN hit.given.headers

BothWrote(c, d) ==
  /\ c # d
  /\ calls[c].key = calls[d].key
  /\ calls[c].pc = "done" /\ calls[c].outcome = "ok"
  /\ calls[d].pc = "done" /\ calls[d].outcome = "ok"

\* C17: once two put calls to the same key have both completed, in whatever
\* order their steps ran, the stored entry is wholly that of the call whose
\* write the bucket took last (body, httpMetadata and customMetadata all of
\* that call's response) and match on the key returns that response:
\* its status, status text and body.
C17_LastWriterWins ==
  \A c, d \in 1..Len(calls) :
    (BothWrote(c, d) /\ \A e \in 1..Len(calls) : calls[e].pc = "done") =>
      LET k == calls[c].key[1]
          r == calls[LastWriter(k)].response
          m == match(store, ReqString(k), TRUE)
      IN  /\ store[k].body = r.body
          /\ store[k].httpMetadata = Some(serializeHTTPMetadata(r.headers))
          /\ store[k].customMetadata
               = Some([statusCode |-> NumToString(r.status), statusText |-> r.statusText])
          /\ m.outcome = "response"
          /\ m.response[1].status = r.status
          /\ m.response[1].statusText = r.statusText
          /\ m.response[1].body = Some(r.body)

\* No command of v has failed, and each one that resolved reported every key
\* of its batch deleted.
NoKeyKept(v) ==
  \A i \in 1..Len(v.batches) :
    /\ v.chunkState[i] # "failed"
    /\ v.chunkState[i] = "ok" => v.chunkDeleted[i] = v.batches[i]

\* C16: from the moment deleteMany has issued its purge request, when no
\* command failed or kept a key, every requested key that no put has written
\* since the call began is absent from the bucket, and match on it misses.
C16_OriginBeforeEdge ==
  (IsDeleteMany(inv) /\ inv.purges # <<>> /\ NoKeyKept(inv)) =>
    \A i \in 1..Len(inv.reqs) :
      LET k == _getKey(inv.reqs[i]) IN
      (Truthy(k) /\ k[1] \notin fresh) =>
        /\ k[1] \notin DOMAIN store
        /\ match(store, ReqString(k[1]), TRUE).outcome = "miss"

\* The purge of /a and /b is awaited after two puts; neither is stored.
C16_Witness ==
  /\ inv.api = "deleteMany"
  /\ inv.pc = "purging"
  /\ inv.reqs = <<ReqURL("https://site.test/a?x=1"), ReqString("/b")>>
  /\ NoKeyKept(inv)
  /\ nPut = 2
  /\ fresh = {}
  /\ store = EmptyStore

\* C18: an invocation of deleteMany or deleteAll sends each chunk's
\* batch-delete command once (its commands are exactly the chunks of its
\* requests) and at most one purge request; when the purge request rejects,
\* which happens only after every command resolved, the call fails with the
\* purge error, nothing more is sent, and every key reported deleted stays
\* absent from the bucket (match misses on it) unless a put has written it
\* since the call began.
C18_NoRetryNoRollback ==
  /\ Len(inv.purges) <= 1
  /\ Len(inv.batches) = CeilDiv(Len(inv.reqs), 1000)
  /\ Flatten(inv.batches) = KeysOf(inv.reqs)
  /\ \A i \in 1..Len(inv.purges) :
       inv.purges[i].state = "failed" <=> inv.outcome = "PurgeError"
  /\ inv.outcome = "PurgeError" =>
       /\ inv.pc = "done"
       /\ AllChunksResolved(inv)
       /\ Len(inv.purges) = 1
       /\ \A i \in 1..Len(DeletedOf(inv)) :
            LET k == DeletedOf(inv)[i][1] IN
            k \notin fresh =>
              /\ k \notin DOMAIN store
              /\ k # "" => match(store, ReqString(k), TRUE).outcome = "miss"

\* deleteAll of a bucket of two commands' keys whose purge rejected: the
\* call has failed, the bucket is empty, one purge was sent.
C18_Witness ==
  /\ inv.api = "deleteAll"
  /\ inv.outcome = "PurgeError"
  /\ Len(inv.batches) = 2
  /\ AllDeleted(inv)
  /\ Len(inv.purges) = 1
  /\ inv.purges[1].state = "failed"
  /\ fresh = {}
  /\ store = EmptyStore

\* The entries of every key but those of ks are the same in both buckets.
SameBut(st1, st2, ks) ==
  \A k \in (DOMAIN st1 \cup DOMAIN st2) \ ks :
    k \in DOMAIN st1 /\ k \in DOMAIN st2 /\ st1[k] = st2[k]

\* C19: a match or keys call leaves the bucket as it was and sends no
\* batch-delete and no purge (its only requests are gets, or list
\* requests); a put call leaves the entry of every key but its own resolved
\* key as it was (every entry, when it has no key or the store refuses the
\* write), and sends no batch-delete and no purge; and no step of any
\* operation changes the configuration made by the constructor.
C19_Frame ==
  [][ /\ CFCache' = CFCache
      /\ last'.op = "match" =>
           /\ store' = store
           /\ inv' = inv
           /\ \A i \in 1..Len(last'.io) : last'.io[i].call = "get"
      /\ last'.op = "keys" =>
           /\ store' = store
           /\ inv' = inv
           /\ \A i \in 1..Len(last'.io) : last'.io[i].call = "list"
      /\ last'.op = "put" =>
           /\ inv' = inv
           /\ \A i \in 1..Len(last'.io) : last'.io[i].call = "put"
           /\ IF Truthy(last'.key) /\ last'.outcome = "ok"
                THEN SameBut(store, store', {last'.key[1]})
                ELSE store' = store ]_vars

\* Reads and a put while the purge of a delete is awaited: keys has just
\* listed the one entry a put stored after the delete emptied the bucket.
C19_Witness ==
  /\ last.op = "keys"
  /\ last.response = Some(<<"/b">>)
  /\ inv.pc = "purging"
  /\ inv.api = "delete"
  /\ inv.result = <<>>
  /\ DeletedOf(inv) = <<Some("/a")>>
  /\ fresh = {"/b"}
  /\ nPut = 2
  /\ CFCache # None

=============================================================================
